---- MODULE Spec2Model ----
(***************************************************************************)
(* The Xpath facade of cd_parser/xpath.py: construction (content type      *)
(* dispatch, base URL storage), the query operations that assemble an      *)
(* XPath expression from caller strings, the extraction helpers and the    *)
(* two link classifiers.                                                   *)
(*                                                                         *)
(* Strings are sequences of one-character strings, so that prefix tests,   *)
(* stripping and the quoting of an assembled expression are computed       *)
(* character by character.  The document tree is the sequence of its nodes *)
(* in document order, each with the index of its parent (0: the document   *)
(* root).  lxml's parsers and its XPath evaluator are modelled by what the *)
(* calls at the mapped source lines do on these values.                    *)
(***************************************************************************)
EXTENDS Integers, Sequences, FiniteSets, TLC

VARIABLES phase, tree, base_url, request, parserCalls, call, result, raised

vars == <<phase, tree, base_url, request, parserCalls, call, result, raised>>

(* Bound of the model: the number of child subtrees under the root.        *)
MaxItems == 2

(***************************************************************************)
(* Values                                                                  *)
(***************************************************************************)

(* Python's None.  No string equals it: every character is one symbol.     *)
None == <<"None">>

NoTree == <<>>

(* Mutant of Truthy: the test `is not None`.                               *)
Truthy_IsNotNone(x) == x # None

(* Python truthiness of an optional string: None and "" are falsy.         *)
Truthy(x) == x # None /\ x # <<>>

(* str.startswith *)
StartsWith(s, prefix) ==
    /\ Len(prefix) <= Len(s)
    /\ SubSeq(s, 1, Len(prefix)) = prefix

Whitespace == {" ", "\n", "\t"}

RECURSIVE LStrip(_)
LStrip(s) ==
    IF s = <<>> THEN <<>>
    ELSE IF Head(s) \in Whitespace THEN LStrip(Tail(s)) ELSE s

RECURSIVE RStrip(_)
RStrip(s) ==
    IF s = <<>> THEN <<>>
    ELSE IF s[Len(s)] \in Whitespace THEN RStrip(SubSeq(s, 1, Len(s) - 1)) ELSE s

(* str.strip() *)
Strip(s) == RStrip(LStrip(s))

(* substring test, as XPath's contains() *)
Contains(s, sub) ==
    \E i \in 1..(Len(s) + 1) :
        /\ i + Len(sub) - 1 <= Len(s)
        /\ SubSeq(s, i, i + Len(sub) - 1) = sub

(***************************************************************************)
(* Strings of the source and of the inputs                                 *)
(***************************************************************************)
S_http == <<"h", "t", "t", "p", ":", "/", "/">>
S_https == <<"h", "t", "t", "p", "s", ":", "/", "/">>

T_a == <<"a">>
T_p == <<"p">>
T_div == <<"d", "i", "v">>
T_img == <<"i", "m", "g">>
T_article == <<"a", "r", "t", "i", "c", "l", "e">>

A_href == <<"h", "r", "e", "f">>
A_src == <<"s", "r", "c">>
A_class == <<"c", "l", "a", "s", "s">>
A_id == <<"i", "d">>
A_name == <<"n", "a", "m", "e">>
A_data == <<"d", "a", "t", "a", "-">>

L_ea == S_https \o <<"e", "/", "a">>
L_ob == S_https \o <<"o", "/", "b">>
L_rel == <<"/", "r">>
L_he == S_http \o <<"e">>

B_e == S_https \o <<"e">>

BaseUrls == {None, <<>>, B_e, L_rel}

ContentTypes == {<<"x", "m", "l">>, <<"h", "t", "m", "l">>, <<"p", "d", "f">>,
                 <<"X", "M", "L">>, <<>>}

Q == <<"'">>

(***************************************************************************)
(* Documents                                                               *)
(***************************************************************************)
Elem(tag, attrs, parent) ==
    [kind |-> "elem", tag |-> tag, attrs |-> attrs, parent |-> parent, text |-> <<>>]

TextNode(s, parent) ==
    [kind |-> "text", tag |-> <<>>, attrs |-> <<>>, parent |-> parent, text |-> s]

RootNode == Elem(T_div, <<<<A_class, <<"x">>>>>>, 0)

(* Subtrees hung under the root; parent 0 stands for the root, parent k    *)
(* for the k-th node of the subtree.                                       *)
ItemShapes == {
    (* <a href="https://e/a">x</a> *)
    <<Elem(T_a, <<<<A_href, L_ea>>>>, 0), TextNode(<<"x">>, 1)>>,
    (* <a href="https://o/b">x</a> *)
    <<Elem(T_a, <<<<A_href, L_ob>>>>, 0), TextNode(<<"x">>, 1)>>,
    (* <a href="/r"> </a> *)
    <<Elem(T_a, <<<<A_href, L_rel>>>>, 0), TextNode(<<" ">>, 1)>>,
    (* <a href="http://e"/> *)
    <<Elem(T_a, <<<<A_href, L_he>>>>, 0)>>,
    (* <a>y</a> *)
    <<Elem(T_a, <<>>, 0), TextNode(<<"y">>, 1)>>,
    (* <p><a href="https://e/a"/><a href="https://o/b"/><a href="/r"/></p> *)
    <<Elem(T_p, <<>>, 0), Elem(T_a, <<<<A_href, L_ea>>>>, 1),
      Elem(T_a, <<<<A_href, L_ob>>>>, 1), Elem(T_a, <<<<A_href, L_rel>>>>, 1)>>,
    (* <article> x <p class="x">x</p>\n</article> *)
    <<Elem(T_article, <<>>, 0), TextNode(<<" ", "x", " ">>, 1),
      Elem(T_p, <<<<A_class, <<"x">>>>>>, 1), TextNode(<<"x">>, 3),
      TextNode(<<"\n">>, 1)>>,
    (* <article><article><a name="x">\ty</a>                                *)
    (*   <img src="/r" id="x" data-k="x"/></article></article>              *)
    <<Elem(T_article, <<>>, 0), Elem(T_article, <<>>, 1),
      Elem(T_a, <<<<A_name, <<"x">>>>>>, 2), TextNode(<<"\t", "y">>, 3),
      Elem(T_img, <<<<A_src, L_rel>>, <<A_id, <<"x">>>>,
                   <<A_data \o <<"k">>, <<"x">>>>>>, 2)>>
}

(* The subtree placed after `offset` nodes, under the root (node 1).       *)
Place(sub, offset) ==
    [i \in 1..Len(sub) |->
        [sub[i] EXCEPT !.parent = IF sub[i].parent = 0 THEN 1 ELSE sub[i].parent + offset]]

RECURSIVE Hang(_, _)
Hang(nodes, items) ==
    IF items = <<>> THEN nodes
    ELSE Hang(nodes \o Place(Head(items), Len(nodes)), Tail(items))

Doc(items) == Hang(<<RootNode>>, items)

Docs == {Doc(items) : items \in UNION {[1..n -> ItemShapes] : n \in 0..MaxItems}}

(* Content strings: the markup of a document, the empty string, and markup  *)
(* whose root tag is never closed.                                         *)
Contents ==
    {[form |-> "wellformed", nodes |-> d] : d \in Docs}
        \cup {[form |-> "empty", nodes |-> <<>>],
              [form |-> "unclosed", nodes |-> Doc(<<>>)]}

(* etree.fromstring: a tree, or XMLSyntaxError on markup that is not       *)
(* well-formed.                                                            *)
XmlFromString(content) ==
    IF content.form = "wellformed"
    THEN [ok |-> TRUE, tree |-> content.nodes]
    ELSE [ok |-> FALSE, tree |-> NoTree]

(* html.fromstring: recovers from unclosed tags, ParserError on an empty   *)
(* document.                                                               *)
HtmlFromString(content) ==
    IF content.form = "empty"
    THEN [ok |-> FALSE, tree |-> NoTree]
    ELSE [ok |-> TRUE, tree |-> content.nodes]

(***************************************************************************)
(* lxml's XPath evaluator (tree.xpath), for the XPath 1.0 expressions the  *)
(* templates of the source produce: absolute location paths with name, *,  *)
(* text() and attribute steps, and predicates built from literals,         *)
(* numbers, @name, text(), contains(), = and or.                           *)
(***************************************************************************)
Letters == {"a", "b", "c", "d", "e", "f", "g", "h", "i", "j", "k", "l", "m",
            "n", "o", "p", "q", "r", "s", "t", "u", "v", "w", "x", "y", "z"}

DigitChars == <<"0", "1", "2", "3", "4", "5", "6", "7", "8", "9">>

Digits == {DigitChars[i] : i \in 1..10}

NameChars == Letters \cup Digits \cup {"-", "_"}

Punctuation == {"[", "]", "(", ")", "@", ",", "=", "*"}

Quotes == {"'", "\""}

DigitValue(c) == (CHOOSE i \in 1..10 : DigitChars[i] = c) - 1

RECURSIVE NumberValue(_)
NumberValue(s) ==
    IF s = <<>> THEN 0
    ELSE 10 * NumberValue(SubSeq(s, 1, Len(s) - 1)) + DigitValue(s[Len(s)])

(* str(n) of a non-negative int, as the f-string formats it *)
RECURSIVE FormatInt(_)
FormatInt(n) ==
    IF n < 10 THEN <<DigitChars[n + 1]>>
    ELSE FormatInt(n \div 10) \o <<DigitChars[(n % 10) + 1]>>

(* Last index j >= i such that s[i..j] all lie in `chars` (i - 1 if none). *)
RECURSIVE RunEnd(_, _, _)
RunEnd(s, i, chars) ==
    IF i <= Len(s) /\ s[i] \in chars THEN RunEnd(s, i + 1, chars) ELSE i - 1

(* Index of the first `q` at or after i, 0 if there is none.               *)
RECURSIVE FindChar(_, _, _)
FindChar(s, i, q) ==
    IF i > Len(s) THEN 0
    ELSE IF s[i] = q THEN i ELSE FindChar(s, i + 1, q)

Tok(type, value) == [t |-> type, v |-> value]

LexError == <<Tok("error", <<>>)>>

(* The tokens of expression s from position i on, after the tokens acc;    *)
(* LexError on an unfinished literal or a character outside the language.  *)
RECURSIVE Lex(_, _, _)
Lex(s, i, acc) ==
    IF i > Len(s) THEN acc
    ELSE LET c == s[i] IN
        IF c \in Whitespace THEN Lex(s, i + 1, acc)
        ELSE IF c = "/" THEN
            IF i < Len(s) /\ s[i + 1] = "/"
            THEN Lex(s, i + 2, Append(acc, Tok("//", <<>>)))
            ELSE Lex(s, i + 1, Append(acc, Tok("/", <<>>)))
        ELSE IF c \in Punctuation THEN Lex(s, i + 1, Append(acc, Tok(c, <<>>)))
        ELSE IF c \in Quotes THEN
            LET j == FindChar(s, i + 1, c) IN
            IF j = 0 THEN LexError
            ELSE Lex(s, j + 1, Append(acc, Tok("lit", SubSeq(s, i + 1, j - 1))))
        ELSE IF c \in Digits THEN
            LET j == RunEnd(s, i, Digits) IN
            Lex(s, j + 1, Append(acc, Tok("num", SubSeq(s, i, j))))
        ELSE IF c \in Letters \cup {"_"} THEN
            LET j == RunEnd(s, i, NameChars) IN
            Lex(s, j + 1, Append(acc, Tok("name", SubSeq(s, i, j))))
        ELSE LexError

N_text == <<"t", "e", "x", "t">>
N_contains == <<"c", "o", "n", "t", "a", "i", "n", "s">>
N_or == <<"o", "r">>

Fail == [ok |-> FALSE, val |-> <<>>, pos |-> 0]

Ok(val, pos) == [ok |-> TRUE, val |-> val, pos |-> pos]

Is(toks, i, type) == i <= Len(toks) /\ toks[i].t = type

IsName(toks, i, name) == Is(toks, i, "name") /\ toks[i].v = name

(* the parse of a binary expression from the parses of its operands *)
Binary(kind, a, b) ==
    IF a.ok /\ b.ok THEN Ok([k |-> kind, a |-> a.val, b |-> b.val], b.pos) ELSE Fail

(* the parse a, once the token that must follow it is consumed *)
Closed(toks, a, close) ==
    IF a.ok /\ Is(toks, a.pos, close) THEN Ok(a.val, a.pos + 1) ELSE Fail

(* The expression grammar of a predicate, one rule per case; `left` is the *)
(* operand already parsed, for the rules that continue an expression.      *)
(*   primary: a literal, a number, @name, text(), contains(e, e) or (e)    *)
(*   eq:      primary ("=" primary)?                                       *)
(*   or:      eq ("or" eq)*                                                *)
RECURSIVE ParseExpr(_, _, _, _)
ParseExpr(toks, i, rule, left) ==
    CASE rule = "primary" ->
            IF Is(toks, i, "lit") THEN Ok([k |-> "lit", s |-> toks[i].v], i + 1)
            ELSE IF Is(toks, i, "num")
            THEN Ok([k |-> "num", n |-> NumberValue(toks[i].v)], i + 1)
            ELSE IF Is(toks, i, "@") THEN
                IF Is(toks, i + 1, "name")
                THEN Ok([k |-> "attr", name |-> toks[i + 1].v], i + 2)
                ELSE Fail
            ELSE IF IsName(toks, i, N_text) THEN
                IF Is(toks, i + 1, "(") /\ Is(toks, i + 2, ")")
                THEN Ok([k |-> "text"], i + 3)
                ELSE Fail
            ELSE IF IsName(toks, i, N_contains) THEN
                IF ~Is(toks, i + 1, "(") THEN Fail
                ELSE Closed(toks,
                            ParseExpr(toks, i + 2, "second argument",
                                      ParseExpr(toks, i + 2, "or", Fail)),
                            ")")
            ELSE IF Is(toks, i, "(")
            THEN Closed(toks, ParseExpr(toks, i + 1, "or", Fail), ")")
            ELSE Fail
      [] rule = "second argument" ->
            IF ~(left.ok /\ Is(toks, left.pos, ",")) THEN Fail
            ELSE Binary("contains", left, ParseExpr(toks, left.pos + 1, "or", Fail))
      [] rule = "eq" ->
            ParseExpr(toks, i, "eq rest", ParseExpr(toks, i, "primary", Fail))
      [] rule = "eq rest" ->
            IF ~left.ok THEN Fail
            ELSE IF ~Is(toks, left.pos, "=") THEN left
            ELSE Binary("eq", left, ParseExpr(toks, left.pos + 1, "primary", Fail))
      [] rule = "or" ->
            ParseExpr(toks, i, "or rest", ParseExpr(toks, i, "eq", Fail))
      [] rule = "or rest" ->
            IF ~left.ok THEN Fail
            ELSE IF ~IsName(toks, left.pos, N_or) THEN left
            ELSE ParseExpr(toks, i, "or rest",
                           Binary("or", left, ParseExpr(toks, left.pos + 1, "eq", Fail)))

(* OrExpr *)
ParseOr(toks, i) == ParseExpr(toks, i, "or", Fail)

(* Predicate*: the predicates from position i on, after those in acc;     *)
(* `read` holds the parse of the predicate just read, if one was.          *)
RECURSIVE ParsePredicates(_, _, _, _)
ParsePredicates(toks, i, acc, read) ==
    IF read # <<>> THEN
        IF read[1].ok
        THEN ParsePredicates(toks, read[1].pos, Append(acc, read[1].val), <<>>)
        ELSE Fail
    ELSE IF ~Is(toks, i, "[") THEN Ok(acc, i)
    ELSE ParsePredicates(toks, i, acc, <<Closed(toks, ParseOr(toks, i + 1), "]")>>)

(* the node test or attribute name a step starts with *)
StepHead(toks, i, axis) ==
    IF Is(toks, i, "@") THEN
        IF Is(toks, i + 1, "name")
        THEN Ok([axis |-> axis, test |-> "attr", name |-> toks[i + 1].v], i + 2)
        ELSE Fail
    ELSE IF IsName(toks, i, N_text) /\ Is(toks, i + 1, "(") /\ Is(toks, i + 2, ")")
    THEN Ok([axis |-> axis, test |-> "text", name |-> <<>>], i + 3)
    ELSE IF Is(toks, i, "name")
    THEN Ok([axis |-> axis, test |-> "name", name |-> toks[i].v], i + 1)
    ELSE IF Is(toks, i, "*")
    THEN Ok([axis |-> axis, test |-> "any", name |-> <<>>], i + 1)
    ELSE Fail

StepOf(head, ps) ==
    IF head.ok /\ ps.ok
    THEN Ok([axis |-> head.val.axis, test |-> head.val.test, name |-> head.val.name,
             preds |-> ps.val], ps.pos)
    ELSE Fail

StepAfter(toks, head) ==
    IF ~head.ok THEN Fail
    ELSE IF head.val.test = "attr" THEN StepOf(head, Ok(<<>>, head.pos))
    ELSE StepOf(head, ParsePredicates(toks, head.pos, <<>>, <<>>))

(* Step, reached over the axis the separator before it stands for *)
ParseStep(toks, i, axis) == StepAfter(toks, StepHead(toks, i, axis))

(* AbsoluteLocationPath: the steps from position i on, after those in acc; *)
(* `read` holds the parse of the step just read, if one was.               *)
RECURSIVE ParsePath(_, _, _, _)
ParsePath(toks, i, acc, read) ==
    IF read # <<>> THEN
        IF read[1].ok
        THEN ParsePath(toks, read[1].pos, Append(acc, read[1].val), <<>>)
        ELSE Fail
    ELSE IF i > Len(toks) THEN (IF acc = <<>> THEN Fail ELSE Ok(acc, i))
    ELSE IF Is(toks, i, "//") THEN ParsePath(toks, i, acc, <<ParseStep(toks, i + 1, "desc")>>)
    ELSE IF Is(toks, i, "/") THEN ParsePath(toks, i, acc, <<ParseStep(toks, i + 1, "child")>>)
    ELSE Fail

Parsed(toks) == IF toks = LexError THEN Fail ELSE ParsePath(toks, 1, <<>>, <<>>)

(* The compiled expression: its steps, or not ok on a syntax error.        *)
Compile(expr) == Parsed(Lex(expr, 1, <<>>))

(* XPath values: string, boolean, number, or a node set of attribute and   *)
(* text nodes given by their string values in document order.              *)
VStr(s) == [ty |-> "str", s |-> s, b |-> FALSE, n |-> 0, items |-> <<>>]

VBool(b) == [ty |-> "bool", s |-> <<>>, b |-> b, n |-> 0, items |-> <<>>]

VNum(n) == [ty |-> "num", s |-> <<>>, b |-> FALSE, n |-> n, items |-> <<>>]

VSet(items) == [ty |-> "set", s |-> <<>>, b |-> FALSE, n |-> 0, items |-> items]

NaN == 0 - 1

(* element.get(name): the attribute's value, None when it is absent *)
AttrValue(node, name) ==
    LET hits == {i \in 1..Len(node.attrs) : node.attrs[i][1] = name} IN
    IF hits = {} THEN None ELSE node.attrs[CHOOSE i \in hits : TRUE][2]

(* The members of a set of node indices, in document order. *)
RECURSIVE Ordered(_)
Ordered(S) ==
    IF S = {} THEN <<>>
    ELSE LET m == CHOOSE x \in S : \A y \in S : x <= y IN <<m>> \o Ordered(S \ {m})

TextsOf(t, S) == LET o == Ordered(S) IN [i \in 1..Len(o) |-> t[o[i]].text]

ChildTexts(t, n) == TextsOf(t, {m \in 1..Len(t) : t[m].kind = "text" /\ t[m].parent = n})

(* string() *)
StringOf(v) ==
    CASE v.ty = "str" -> v.s
      [] v.ty = "set" -> IF v.items = <<>> THEN <<>> ELSE v.items[1]
      [] v.ty = "bool" -> IF v.b THEN <<"t", "r", "u", "e">> ELSE <<"f", "a", "l", "s", "e">>
      [] v.ty = "num" -> IF v.n = NaN THEN <<"N", "a", "N">> ELSE FormatInt(v.n)

(* boolean() *)
BoolOf(v) ==
    CASE v.ty = "str" -> v.s # <<>>
      [] v.ty = "set" -> v.items # <<>>
      [] v.ty = "bool" -> v.b
      [] v.ty = "num" -> v.n # 0 /\ v.n # NaN

StringNumber(s) ==
    LET d == Strip(s) IN
    IF d # <<>> /\ \A i \in 1..Len(d) : d[i] \in Digits THEN NumberValue(d) ELSE NaN

(* number() *)
NumOf(v) ==
    CASE v.ty = "num" -> v.n
      [] v.ty = "bool" -> IF v.b THEN 1 ELSE 0
      [] OTHER -> StringNumber(StringOf(v))

(* the = comparison of two values that are not node sets *)
ScalarEqual(a, b) ==
    IF a.ty = "bool" \/ b.ty = "bool" THEN BoolOf(a) = BoolOf(b)
    ELSE IF a.ty = "num" \/ b.ty = "num"
    THEN NumOf(a) # NaN /\ NumOf(a) = NumOf(b)
    ELSE a.s = b.s

(* the = comparison *)
ValueEqual(a, b) ==
    IF a.ty = "set" /\ b.ty = "set"
    THEN \E i \in 1..Len(a.items), j \in 1..Len(b.items) : a.items[i] = b.items[j]
    ELSE IF a.ty = "set"
    THEN IF b.ty = "bool" THEN BoolOf(a) = b.b
         ELSE \E i \in 1..Len(a.items) : ScalarEqual(VStr(a.items[i]), b)
    ELSE IF b.ty = "set"
    THEN IF a.ty = "bool" THEN BoolOf(b) = a.b
         ELSE \E i \in 1..Len(b.items) : ScalarEqual(a, VStr(b.items[i]))
    ELSE ScalarEqual(a, b)

(* The value of predicate expression e at context node n of tree t. *)
RECURSIVE EvalExpr(_, _, _)
EvalExpr(t, e, n) ==
    CASE e.k = "lit" -> VStr(e.s)
      [] e.k = "num" -> VNum(e.n)
      [] e.k = "attr" ->
            LET v == AttrValue(t[n], e.name) IN VSet(IF v = None THEN <<>> ELSE <<v>>)
      [] e.k = "text" -> VSet(ChildTexts(t, n))
      [] e.k = "contains" ->
            VBool(Contains(StringOf(EvalExpr(t, e.a, n)), StringOf(EvalExpr(t, e.b, n))))
      [] e.k = "eq" -> VBool(ValueEqual(EvalExpr(t, e.a, n), EvalExpr(t, e.b, n)))
      [] e.k = "or" -> VBool(BoolOf(EvalExpr(t, e.a, n)) \/ BoolOf(EvalExpr(t, e.b, n)))

(* A predicate holds when its value is true, or is the node's position. *)
Truth(v, position) == IF v.ty = "num" THEN v.n = position ELSE BoolOf(v)

Holds(t, e, n, position) == Truth(EvalExpr(t, e, n), position)

NodeTest(t, st, n) ==
    CASE st.test = "name" -> t[n].kind = "elem" /\ t[n].tag = st.name
      [] st.test = "any" -> t[n].kind = "elem"
      [] st.test = "text" -> t[n].kind = "text"
      [] OTHER -> FALSE

(* Node n passes the step's node test and its first k predicates; the     *)
(* position a predicate sees counts the siblings that passed before it.   *)
RECURSIVE Passes(_, _, _, _)
Passes(t, st, n, k) ==
    IF k = 0 THEN NodeTest(t, st, n)
    ELSE /\ Passes(t, st, n, k - 1)
         /\ Holds(t, st.preds[k], n,
                  1 + Cardinality({m \in 1..(n - 1) :
                        t[m].parent = t[n].parent /\ Passes(t, st, m, k - 1)}))

(* a is a proper ancestor of node n; 0 is the document root *)
RECURSIVE IsAncestor(_, _, _)
IsAncestor(t, a, n) ==
    IF n = 0 THEN FALSE
    ELSE t[n].parent = a \/ IsAncestor(t, a, t[n].parent)

(* The nodes a child or descendant step selects from the context set. *)
Select(t, st, ctx) ==
    {n \in 1..Len(t) :
        /\ \E c \in ctx : IF st.axis = "child" THEN t[n].parent = c ELSE IsAncestor(t, c, n)
        /\ Passes(t, st, n, Len(st.preds))}

(* The elements whose attributes an attribute step looks at. *)
Owners(t, st, ctx) ==
    {n \in 1..Len(t) :
        /\ t[n].kind = "elem"
        /\ \E c \in ctx : n = c \/ (st.axis = "desc" /\ IsAncestor(t, c, n))}

AttrsOf(t, name, S) ==
    LET o == Ordered({n \in S : AttrValue(t[n], name) # None}) IN
    [i \in 1..Len(o) |-> AttrValue(t[o[i]], name)]

(* The result list of the steps from the i-th on: element handles (node   *)
(* indices), attribute values or text strings, in document order.         *)
RECURSIVE EvalPath(_, _, _, _)
EvalPath(t, steps, i, ctx) ==
    IF i > Len(steps) THEN Ordered(ctx \ {0})
    ELSE LET st == steps[i] IN
        IF st.test = "attr" THEN
            IF i = Len(steps) THEN AttrsOf(t, st.name, Owners(t, st, ctx)) ELSE <<>>
        ELSE IF st.test = "text" THEN
            IF i = Len(steps) THEN TextsOf(t, Select(t, st, ctx)) ELSE <<>>
        ELSE EvalPath(t, steps, i + 1, Select(t, st, ctx))

Returned(value) == [err |-> "none", value |-> value]

Raised(error) == [err |-> error, value |-> <<>>]

(* tree.xpath(expr): the match list, or XPathEvalError *)
Evaluate(t, c) ==
    IF c.ok THEN Returned(EvalPath(t, c.val, 1, {0})) ELSE Raised("QueryError")

XPath(t, expr) == Evaluate(t, Compile(expr))

(***************************************************************************)
(* The facade                                                              *)
(***************************************************************************)
X_root == <<"/", "/">>

(* Mutant of get_nodes_by_tag: quotes are dropped from the tag name.       *)
get_nodes_by_tag_Sanitized(t, tagname) ==
    LET plain(c) == c \notin Quotes IN XPath(t, X_root \o SelectSeq(tagname, plain))

(* Xpath.get_nodes_by_tag *)
get_nodes_by_tag(t, tagname) == XPath(t, X_root \o tagname)

(* Xpath.get_nodes_by_attribute *)
get_nodes_by_attribute(t, tagname, attribute, value) ==
    XPath(t, X_root \o tagname \o <<"[", "@">> \o attribute \o <<"=">> \o Q \o value
              \o Q \o <<"]">>)

(* Xpath.get_nodes_by_text *)
get_nodes_by_text(t, tagname, text) ==
    XPath(t, X_root \o tagname \o <<"[">> \o N_text \o <<"(", ")", "=">> \o Q \o text
              \o Q \o <<"]">>)

(* Xpath.get_nth_child *)
get_nth_child(t, parent, child, n) ==
    XPath(t, X_root \o parent \o <<"/">> \o child \o <<"[">> \o FormatInt(n) \o <<"]">>)

(* Xpath.get_nodes_containing_text *)
get_nodes_containing_text(t, tagname, text) ==
    XPath(t, X_root \o tagname \o <<"[">> \o N_contains \o <<"(">> \o N_text
              \o <<"(", ")", ",", " ">> \o Q \o text \o Q \o <<")", "]">>)

(* Xpath.get_nodes_by_attribute_containing_text *)
get_nodes_by_attribute_containing_text(t, tagname, attribute, text) ==
    XPath(t, X_root \o tagname \o <<"[">> \o N_contains \o <<"(", "@">> \o attribute
              \o <<",", " ">> \o Q \o text \o Q \o <<")", "]">>)

(* Xpath.get_nodes_by_class *)
get_nodes_by_class(t, classname) ==
    XPath(t, X_root \o <<"*", "[", "@">> \o A_class \o <<"=">> \o Q \o classname
              \o Q \o <<"]">>)

(* Xpath.get_nodes_by_id *)
get_nodes_by_id(t, element_id) ==
    XPath(t, X_root \o <<"*", "[", "@">> \o A_id \o <<"=">> \o Q \o element_id
              \o Q \o <<"]">>)

(* Xpath.get_nodes_by_data_attribute *)
get_nodes_by_data_attribute(t, attribute, value) ==
    XPath(t, X_root \o <<"*", "[", "@">> \o A_data \o attribute \o <<"=">> \o Q \o value
              \o Q \o <<"]">>)

(* Xpath.get_nodes_by_name *)
get_nodes_by_name(t, name) ==
    XPath(t, X_root \o <<"*", "[", "@">> \o A_name \o <<"=">> \o Q \o name
              \o Q \o <<"]">>)

(* [text.strip() for text in texts] *)
Stripped(texts) == [i \in 1..Len(texts) |-> Strip(texts[i])]

(* Mutant of get_article_text: the comprehension without its filter.       *)
get_article_text_Unfiltered(t) ==
    LET articles == XPath(t, X_root \o T_article \o X_root \o N_text \o <<"(", ")">>)
    IN Returned(Stripped(articles.value))

(* Xpath.get_article_text *)
get_article_text(t) ==
    LET articles == XPath(t, X_root \o T_article \o X_root \o N_text \o <<"(", ")">>)
        keep(stripped) == stripped # <<>>
    IN Returned(SelectSeq(Stripped(articles.value), keep))

(* Xpath.get_images *)
get_images(t) == XPath(t, X_root \o T_img \o <<"/", "@">> \o A_src)

(* Mutant of get_links: the anchors directly under the root only.          *)
get_links_ChildrenOnly(t) == XPath(t, <<"/">> \o T_div \o <<"/">> \o T_a \o <<"/", "@">> \o A_href)

(* Xpath.get_links *)
get_links(t) == XPath(t, X_root \o T_a \o <<"/", "@">> \o A_href)

(* element.text: the text before the element's first child, else None *)
ElementText(t, n) ==
    IF n < Len(t) /\ t[n + 1].kind = "text" /\ t[n + 1].parent = n
    THEN t[n + 1].text
    ELSE None

NoEntries == <<>>

(* Mutant of Put: an existing key keeps its first value.                   *)
Put_KeepFirst(d, key, value) ==
    [k \in (DOMAIN d) \cup {key} |-> IF k \in DOMAIN d THEN d[k] ELSE value]

(* d[key] = value *)
Put(d, key, value) ==
    [k \in (DOMAIN d) \cup {key} |-> IF k = key THEN value ELSE d[k]]

(* the dict comprehension over the anchors not yet visited *)
RECURSIVE LinkMap(_, _, _)
LinkMap(t, anchors, d) ==
    IF anchors = <<>> THEN d
    ELSE LET anchor == Head(anchors) IN
        LinkMap(t, Tail(anchors),
                IF Truthy(ElementText(t, anchor))
                THEN Put(d, ElementText(t, anchor), AttrValue(t[anchor], A_href))
                ELSE d)

(* Xpath.get_links_with_text *)
get_links_with_text(t) ==
    LET anchors == XPath(t, X_root \o T_a) IN
    Returned(LinkMap(t, anchors.value, NoEntries))

IsWebLink(link) == StartsWith(link, S_http) \/ StartsWith(link, S_https)

(* Mutant of get_outbound_links_only: the base URL is never excluded.      *)
get_outbound_links_only_KeepsBase(t, base) ==
    LET web(link) == IsWebLink(link)
    IN Returned(SelectSeq(get_links(t).value, web))

(* Xpath.get_outbound_links_only *)
get_outbound_links_only(t, base) ==
    LET all_links == get_links(t).value
        web(link) == IsWebLink(link)
        outbound(link) == IsWebLink(link) /\ ~StartsWith(link, base)
    IN IF ~Truthy(base)
       THEN Returned(SelectSeq(all_links, web))
       ELSE Returned(SelectSeq(all_links, outbound))

(* Mutant of get_internal_links_only: relative links count as internal.    *)
get_internal_links_only_WithRelative(t, base) ==
    LET internal(link) == StartsWith(link, base) \/ ~IsWebLink(link)
    IN IF ~Truthy(base)
       THEN Raised("ValueError")
       ELSE Returned(SelectSeq(get_links(t).value, internal))

(* Xpath.get_internal_links_only *)
get_internal_links_only(t, base) ==
    LET all_links == get_links(t).value
        internal(link) == StartsWith(link, base)
    IN IF ~Truthy(base)
       THEN Raised("ValueError")
       ELSE Returned(SelectSeq(all_links, internal))

(***************************************************************************)
(* Arguments of the calls                                                  *)
(***************************************************************************)
T_a_quote == T_a \o Q

(* a['c'] *)
T_a_literal == T_a \o <<"[">> \o Q \o <<"c">> \o Q \o <<"]">>

(* a["'"] *)
T_a_quoted_quote == T_a \o <<"[", "\"">> \o Q \o <<"\"", "]">>

(* x' or '1'='1 *)
V_or_true == <<"x">> \o Q \o <<" ", "o", "r", " ">> \o Q \o <<"1">> \o Q \o <<"=">>
                \o Q \o <<"1">>

TagArgs == {T_a, T_p, T_a_quote, T_a_literal, T_a_quoted_quote}

FewTagArgs == {T_a, T_a_quote}

AttrArgs == {A_class, <<"k">> \o Q}

DataArgs == {<<"k">>, <<"k">> \o Q}

ValueArgs == {<<"x">>, <<"x">> \o Q, V_or_true}

PositionArgs == {1, 2}

(***************************************************************************)
(* Xpath.__init__                                                          *)
(***************************************************************************)
C_xml == <<"x", "m", "l">>
C_html == <<"h", "t", "m", "l">>

Built(parsed, base) ==
    [err |-> IF parsed.ok THEN "none" ELSE "ParseError",
     tree |-> parsed.tree,
     base_url |-> IF parsed.ok THEN base ELSE None,
     parses |-> 1]

(* Mutant of XpathInit: the content is parsed before the type is checked.  *)
XpathInit_ParsesFirst(content, content_type, base) ==
    IF content_type = C_xml THEN Built(XmlFromString(content), base)
    ELSE LET made == Built(HtmlFromString(content), base) IN
        IF content_type = C_html THEN made
        ELSE [err |-> "ValueError", tree |-> NoTree, base_url |-> None, parses |-> 1]

(* The outcome of the constructor: the error raised ("none": a facade with *)
(* tree and base_url exists) and the number of parser invocations made.    *)
XpathInit(content, content_type, base) ==
    IF content_type = C_xml THEN Built(XmlFromString(content), base)
    ELSE IF content_type = C_html THEN Built(HtmlFromString(content), base)
    ELSE [err |-> "ValueError", tree |-> NoTree, base_url |-> None, parses |-> 0]

NoRequest == [content_type |-> <<>>, content |-> [form |-> "empty", nodes |-> <<>>],
              base_url |-> None]

NoCall == [op |-> "none", args |-> <<>>]

Init ==
    /\ phase = "new"
    /\ tree = NoTree
    /\ base_url = None
    /\ request = NoRequest
    /\ parserCalls = 0
    /\ call = NoCall
    /\ result = Returned(<<>>)
    /\ raised = FALSE

Construct ==
    /\ phase = "new"
    /\ \E content \in Contents, content_type \in ContentTypes, base \in BaseUrls :
        LET made == XpathInit(content, content_type, base) IN
        /\ request' = [content_type |-> content_type, content |-> content,
                       base_url |-> base]
        /\ parserCalls' = parserCalls + made.parses
        /\ phase' = IF made.err = "none" THEN "ready" ELSE "failed"
        /\ tree' = made.tree
        /\ base_url' = made.base_url
        /\ call' = [op |-> "__init__", args |-> <<>>]
        /\ result' = IF made.err = "none" THEN Returned(<<>>) ELSE Raised(made.err)
        /\ raised' = FALSE

(* The caller takes what the last call returned or raised and is free to   *)
(* make the next call; raised remembers that a call on this facade failed. *)
Return ==
    /\ phase = "ready"
    /\ call # NoCall
    /\ call' = NoCall
    /\ result' = Returned(<<>>)
    /\ raised' = (raised \/ result.err # "none")
    /\ UNCHANGED <<phase, tree, base_url, request, parserCalls>>

(* A method call on the facade: the call and what it returned or raised;   *)
(* no method assigns to self.tree or self.base_url.                        *)
Called(op, args, outcome) ==
    /\ phase = "ready"
    /\ call = NoCall
    /\ call' = [op |-> op, args |-> args]
    /\ result' = outcome
    /\ UNCHANGED <<phase, tree, base_url, request, parserCalls, raised>>

GetNodesByTag ==
    \E tagname \in TagArgs :
        Called("get_nodes_by_tag", <<tagname>>, get_nodes_by_tag(tree, tagname))

GetNodesByAttribute ==
    \E tagname \in FewTagArgs, attribute \in AttrArgs, value \in ValueArgs :
        Called("get_nodes_by_attribute", <<tagname, attribute, value>>,
               get_nodes_by_attribute(tree, tagname, attribute, value))

GetNodesByText ==
    \E tagname \in FewTagArgs, text \in ValueArgs :
        Called("get_nodes_by_text", <<tagname, text>>,
               get_nodes_by_text(tree, tagname, text))

GetNthChild ==
    \E parent \in {T_div, T_article}, child \in FewTagArgs, n \in PositionArgs :
        Called("get_nth_child", <<parent, child, n>>,
               get_nth_child(tree, parent, child, n))

GetNodesContainingText ==
    \E tagname \in FewTagArgs, text \in ValueArgs :
        Called("get_nodes_containing_text", <<tagname, text>>,
               get_nodes_containing_text(tree, tagname, text))

GetNodesByAttributeContainingText ==
    \E tagname \in {T_p}, attribute \in AttrArgs, text \in ValueArgs :
        Called("get_nodes_by_attribute_containing_text", <<tagname, attribute, text>>,
               get_nodes_by_attribute_containing_text(tree, tagname, attribute, text))

GetNodesByClass ==
    \E classname \in ValueArgs :
        Called("get_nodes_by_class", <<classname>>, get_nodes_by_class(tree, classname))

GetNodesById ==
    \E element_id \in ValueArgs :
        Called("get_nodes_by_id", <<element_id>>, get_nodes_by_id(tree, element_id))

GetNodesByDataAttribute ==
    \E attribute \in DataArgs, value \in ValueArgs :
        Called("get_nodes_by_data_attribute", <<attribute, value>>,
               get_nodes_by_data_attribute(tree, attribute, value))

GetNodesByName ==
    \E name \in ValueArgs :
        Called("get_nodes_by_name", <<name>>, get_nodes_by_name(tree, name))

GetArticleText == Called("get_article_text", <<>>, get_article_text(tree))

GetImages == Called("get_images", <<>>, get_images(tree))

GetLinks == Called("get_links", <<>>, get_links(tree))

GetLinksWithText == Called("get_links_with_text", <<>>, get_links_with_text(tree))

(* Mutant of GetOutboundLinksOnly: the call consumes the stored base URL.  *)
GetOutboundLinksOnly_ConsumesBase ==
    /\ phase = "ready"
    /\ call = NoCall
    /\ call' = [op |-> "get_outbound_links_only", args |-> <<>>]
    /\ result' = get_outbound_links_only(tree, base_url)
    /\ base_url' = None
    /\ UNCHANGED <<phase, tree, request, parserCalls, raised>>

GetOutboundLinksOnly ==
    Called("get_outbound_links_only", <<>>, get_outbound_links_only(tree, base_url))

GetInternalLinksOnly ==
    Called("get_internal_links_only", <<>>, get_internal_links_only(tree, base_url))

Next ==
    \/ Construct
    \/ Return
    \/ GetNodesByTag
    \/ GetNodesByAttribute
    \/ GetNodesByText
    \/ GetNthChild
    \/ GetNodesContainingText
    \/ GetNodesByAttributeContainingText
    \/ GetNodesByClass
    \/ GetNodesById
    \/ GetNodesByDataAttribute
    \/ GetNodesByName
    \/ GetArticleText
    \/ GetImages
    \/ GetLinks
    \/ GetLinksWithText
    \/ GetOutboundLinksOnly
    \/ GetInternalLinksOnly

Spec == Init /\ [][Next]_vars

(***************************************************************************)
(* Properties                                                              *)
(***************************************************************************)
After(op) == phase = "ready" /\ call.op = op

IsPrefixOf(prefix, s) == \E k \in 0..Len(s) : SubSeq(s, 1, k) = prefix

Web(link) == IsPrefixOf(S_http, link) \/ IsPrefixOf(S_https, link)

(* s without its leading and trailing whitespace *)
Core(s) ==
    LET inked == {i \in 1..Len(s) : s[i] \notin Whitespace} IN
    IF inked = {} THEN <<>>
    ELSE SubSeq(s, CHOOSE i \in inked : \A j \in inked : i <= j,
                   CHOOSE i \in inked : \A j \in inked : j <= i)

Anchors(t) == {n \in 1..Len(t) : t[n].kind = "elem" /\ t[n].tag = T_a}

HasHref(t, n) == \E i \in 1..Len(t[n].attrs) : t[n].attrs[i][1] = A_href

HrefOf(t, n) == t[n].attrs[CHOOSE i \in 1..Len(t[n].attrs) : t[n].attrs[i][1] = A_href][2]

(* the values get_links returns for the stored document *)
DocLinks == get_links(tree).value

Members(seq) == {seq[i] : i \in 1..Len(seq)}

(* a is b with some of its entries left out, the order kept *)
RECURSIVE IsSubsequence(_, _)
IsSubsequence(a, b) ==
    IF a = <<>> THEN TRUE
    ELSE IF b = <<>> THEN FALSE
    ELSE IF Head(a) = Head(b) THEN IsSubsequence(Tail(a), Tail(b))
    ELSE IsSubsequence(a, Tail(b))

(* C1: a content type other than exactly 'xml' or 'html' makes construction *)
(* fail with ValueError whatever the content, before any parser is invoked, *)
(* and no facade (tree, base URL) comes into existence.                     *)
C1_InvalidContentTypeRejected ==
    (phase # "new" /\ request.content_type \notin {<<"x", "m", "l">>, <<"h", "t", "m", "l">>})
        => /\ phase = "failed"
           /\ result = Raised("ValueError")
           /\ parserCalls = 0
           /\ tree = NoTree
           /\ base_url = None

C1_Witness ==
    /\ phase = "failed"
    /\ request.content_type = <<"p", "d", "f">>
    /\ request.content.form = "empty"
    /\ request.base_url = B_e
    /\ result.err = "ValueError"

(* C2 as stated: get_internal_links_only fails with the configuration error *)
(* when no base URL was given, and for every given base URL returns exactly *)
(* the values of get_links that start with it, in order, duplicates kept.   *)
C2_Original ==
    After("get_internal_links_only") =>
        IF base_url = None
        THEN result = Raised("ValueError")
        ELSE LET internal(link) == IsPrefixOf(base_url, link) IN
            result = Returned(SelectSeq(DocLinks, internal))

(* C2 amended: get_internal_links_only fails with the configuration error   *)
(* when no base URL or the empty string was given, and for every non-empty  *)
(* base URL returns exactly the values of get_links that start with it, in  *)
(* document order, duplicates kept.                                         *)
C2_InternalLinks ==
    After("get_internal_links_only") =>
        IF base_url \in {None, <<>>}
        THEN result = Raised("ValueError")
        ELSE LET internal(link) == IsPrefixOf(base_url, link) IN
            result = Returned(SelectSeq(DocLinks, internal))

C2_Witness ==
    /\ After("get_internal_links_only")
    /\ base_url = B_e
    /\ DocLinks = <<L_ea, L_ob, L_rel>>
    /\ result = Returned(<<L_ea>>)

(* C3 as stated: get_outbound_links_only never fails and returns exactly    *)
(* the values of get_links that start with 'http://' or 'https://' and,     *)
(* when a base URL was given, do not start with it.                         *)
C3_Original ==
    After("get_outbound_links_only") =>
        LET outbound(link) == Web(link) /\ (base_url # None => ~IsPrefixOf(base_url, link))
        IN result = Returned(SelectSeq(DocLinks, outbound))

(* C3 amended: get_outbound_links_only never fails and returns exactly the  *)
(* values of get_links that start with 'http://' or 'https://' and, when a  *)
(* non-empty base URL was given, do not start with it, in document order,   *)
(* duplicates kept.                                                         *)
C3_OutboundLinks ==
    After("get_outbound_links_only") =>
        LET outbound(link) ==
                Web(link) /\ (base_url \notin {None, <<>>} => ~IsPrefixOf(base_url, link))
        IN result = Returned(SelectSeq(DocLinks, outbound))

C3_Witness ==
    /\ After("get_outbound_links_only")
    /\ base_url = B_e
    /\ DocLinks = <<L_ea, L_ob, L_rel>>
    /\ result = Returned(<<L_ob>>)

(* the anchors get_links_with_text maps: those whose text is there *)
Texted(t) == {n \in Anchors(t) : ElementText(t, n) \notin {None, <<>>}}

LastHrefWins(t, d) ==
    \A n \in Texted(t) :
        (\A m \in Texted(t) : ElementText(t, m) = ElementText(t, n) => m <= n)
            => d[ElementText(t, n)] = (IF HasHref(t, n) THEN HrefOf(t, n) ELSE None)

(* C4 as stated: get_links_with_text has no key that is empty or only       *)
(* whitespace, and one entry per shared text, holding the last anchor's     *)
(* href.                                                                    *)
C4_Original ==
    After("get_links_with_text") =>
        /\ \A key \in DOMAIN result.value : Core(key) # <<>>
        /\ DOMAIN result.value \subseteq {ElementText(tree, n) : n \in Texted(tree)}
        /\ LastHrefWins(tree, result.value)

(* C4 amended: get_links_with_text has no empty key: its keys are exactly   *)
(* the texts, as written, of the anchors whose text is neither absent nor   *)
(* empty (text of whitespace only is kept as a key), and for each text the  *)
(* one entry holds the href of the last anchor with that text.              *)
C4_LinksWithText ==
    After("get_links_with_text") =>
        /\ result.err = "none"
        /\ DOMAIN result.value = {ElementText(tree, n) : n \in Texted(tree)}
        /\ <<>> \notin DOMAIN result.value
        /\ LastHrefWins(tree, result.value)

C4_Witness ==
    /\ After("get_links_with_text")
    /\ \E n, m \in Texted(tree) :
        /\ n < m
        /\ ElementText(tree, n) = ElementText(tree, m)
        /\ HasHref(tree, n) /\ HasHref(tree, m)
        /\ HrefOf(tree, n) # HrefOf(tree, m)
        /\ result.value[ElementText(tree, m)] = HrefOf(tree, m)

(* the text nodes with an article element among their ancestors *)
ArticleTextNodes(t) ==
    {n \in 1..Len(t) :
        /\ t[n].kind = "text"
        /\ \E a \in 1..Len(t) :
            t[a].kind = "elem" /\ t[a].tag = T_article /\ IsAncestor(t, a, n)}

(* C5: get_article_text returns no empty or whitespace-only entry: exactly  *)
(* the text nodes under any article element, in document order, each        *)
(* without its surrounding whitespace, those left empty removed, equal      *)
(* fragments kept.                                                          *)
C5_ArticleText ==
    After("get_article_text") =>
        LET nodes == Ordered(ArticleTextNodes(tree))
            cores == [i \in 1..Len(nodes) |-> Core(tree[nodes[i]].text)]
            inked(s) == s # <<>>
        IN /\ result = Returned(SelectSeq(cores, inked))
           /\ \A i \in 1..Len(result.value) :
                /\ result.value[i] # <<>>
                /\ \E j \in 1..Len(result.value[i]) : result.value[i][j] \notin Whitespace

C5_Witness ==
    /\ After("get_article_text")
    /\ \E n \in ArticleTextNodes(tree) : Core(tree[n].text) = <<>>
    /\ \E n \in ArticleTextNodes(tree) : Core(tree[n].text) # tree[n].text
    /\ \E i, j \in 1..Len(result.value) : i < j /\ result.value[i] = result.value[j]

(* what a call returns on a facade holding tree t and base URL b *)
Expected(c, t, b) ==
    CASE c.op = "get_nodes_by_tag" -> get_nodes_by_tag(t, c.args[1])
      [] c.op = "get_nodes_by_attribute" ->
            get_nodes_by_attribute(t, c.args[1], c.args[2], c.args[3])
      [] c.op = "get_nodes_by_text" -> get_nodes_by_text(t, c.args[1], c.args[2])
      [] c.op = "get_nth_child" -> get_nth_child(t, c.args[1], c.args[2], c.args[3])
      [] c.op = "get_nodes_containing_text" ->
            get_nodes_containing_text(t, c.args[1], c.args[2])
      [] c.op = "get_nodes_by_attribute_containing_text" ->
            get_nodes_by_attribute_containing_text(t, c.args[1], c.args[2], c.args[3])
      [] c.op = "get_nodes_by_class" -> get_nodes_by_class(t, c.args[1])
      [] c.op = "get_nodes_by_id" -> get_nodes_by_id(t, c.args[1])
      [] c.op = "get_nodes_by_data_attribute" ->
            get_nodes_by_data_attribute(t, c.args[1], c.args[2])
      [] c.op = "get_nodes_by_name" -> get_nodes_by_name(t, c.args[1])
      [] c.op = "get_article_text" -> get_article_text(t)
      [] c.op = "get_images" -> get_images(t)
      [] c.op = "get_links" -> get_links(t)
      [] c.op = "get_links_with_text" -> get_links_with_text(t)
      [] c.op = "get_outbound_links_only" -> get_outbound_links_only(t, b)
      [] c.op = "get_internal_links_only" -> get_internal_links_only(t, b)

(* C6: after construction no call, failing calls included, changes the      *)
(* stored tree or base URL, so every call returns (or raises) what it would *)
(* on the facade as constructed, whatever was called before it.             *)
C6_CallsLeaveFacadeAlone ==
    phase = "ready" =>
        /\ tree = request.content.nodes
        /\ base_url = request.base_url
        /\ call.op \notin {"none", "__init__"} =>
                result = Expected(call, request.content.nodes, request.base_url)

C6_Witness ==
    /\ After("get_internal_links_only")
    /\ raised
    /\ result.err = "none"
    /\ result.value # <<>>

(* C7: get_links returns one value per anchor that has an href, in document *)
(* order, duplicates kept; get_nodes_by_tag('a') returns the anchors; so    *)
(* the two counts agree when every anchor has an href.                      *)
C7_LinksPerAnchor ==
    LET linked == Ordered({n \in Anchors(tree) : HasHref(tree, n)})
        everyAnchorLinked == \A n \in Anchors(tree) : HasHref(tree, n)
    IN /\ After("get_links") =>
            /\ result = Returned([i \in 1..Len(linked) |-> HrefOf(tree, linked[i])])
            /\ everyAnchorLinked => Len(result.value) = Cardinality(Anchors(tree))
       /\ (After("get_nodes_by_tag") /\ call.args = <<T_a>>) =>
            /\ result = Returned(Ordered(Anchors(tree)))
            /\ everyAnchorLinked => Len(result.value) = Len(linked)

C7_Witness ==
    /\ After("get_links")
    /\ \A n \in Anchors(tree) : HasHref(tree, n)
    /\ Len(result.value) = 4
    /\ result.value[1] = result.value[2]

QueryOps == {"get_nodes_by_tag", "get_nodes_by_attribute", "get_nodes_by_text",
             "get_nth_child", "get_nodes_containing_text",
             "get_nodes_by_attribute_containing_text", "get_nodes_by_class",
             "get_nodes_by_id", "get_nodes_by_data_attribute", "get_nodes_by_name"}

(* the caller's string arguments *)
StringArgs(c) == IF c.op = "get_nth_child" THEN SubSeq(c.args, 1, 2) ELSE c.args

Occurrences(s, chars) == Cardinality({i \in 1..Len(s) : s[i] \in chars})

RECURSIVE TotalOccurrences(_, _)
TotalOccurrences(strings, chars) ==
    IF strings = <<>> THEN 0
    ELSE Occurrences(Head(strings), chars) + TotalOccurrences(Tail(strings), chars)

(* C8 as stated: a query call with an argument that contains a single quote *)
(* fails with a query error.                                                *)
C8_Original ==
    (phase = "ready" /\ call.op \in QueryOps
        /\ \E i \in 1..Len(StringArgs(call)) : Occurrences(StringArgs(call)[i], {"'"}) > 0)
        => result.err = "QueryError"

(* C8 amended: a query call whose string arguments hold no double quote and *)
(* together an odd number of single quotes fails with a query error.        *)
C8_UnbalancedQuoteRaises ==
    (phase = "ready" /\ call.op \in QueryOps
        /\ TotalOccurrences(StringArgs(call), {"\""}) = 0
        /\ TotalOccurrences(StringArgs(call), {"'"}) % 2 = 1)
        => result = Raised("QueryError")

C8_Witness ==
    /\ After("get_nodes_by_attribute")
    /\ TotalOccurrences(StringArgs(call), {"'"}) = 3
    /\ result = Raised("QueryError")

(* C9 as stated: with the empty string as base URL get_internal_links_only  *)
(* returns every link and get_outbound_links_only excludes the links that   *)
(* start with the base URL.                                                 *)
C9_Original ==
    (phase = "ready" /\ request.base_url = <<>>) =>
        /\ After("get_internal_links_only") => result = Returned(DocLinks)
        /\ After("get_outbound_links_only") =>
            LET outbound(link) == Web(link) /\ ~IsPrefixOf(<<>>, link) IN
            result = Returned(SelectSeq(DocLinks, outbound))

(* C9 amended: the empty string is stored as the base URL as given, and the *)
(* link classifiers treat it as no base URL: get_internal_links_only fails  *)
(* with the configuration error and get_outbound_links_only returns every   *)
(* link that starts with 'http://' or 'https://'.                           *)
C9_EmptyBaseIsNoBase ==
    (phase = "ready" /\ request.base_url = <<>>) =>
        /\ base_url = <<>>
        /\ After("get_internal_links_only") => result = Raised("ValueError")
        /\ After("get_outbound_links_only") => result = Returned(SelectSeq(DocLinks, Web))

C9_Witness ==
    /\ After("get_internal_links_only")
    /\ request.base_url = <<>>
    /\ DocLinks # <<>>
    /\ result = Raised("ValueError")

(* C10: for a non-empty base URL the results of get_internal_links_only and *)
(* get_outbound_links_only are sub-sequences of get_links with no value in  *)
(* common; when the base URL starts with 'http://' or 'https://' every link *)
(* that starts with one of them is in exactly one of the two results and    *)
(* every other link in neither.                                             *)
C10_InternalOutboundPartition ==
    (phase = "ready" /\ base_url \notin {None, <<>>}
        /\ call.op \in {"get_internal_links_only", "get_outbound_links_only"}) =>
        LET internal == IF call.op = "get_internal_links_only" THEN result.value
                        ELSE get_internal_links_only(tree, base_url).value
            outbound == IF call.op = "get_outbound_links_only" THEN result.value
                        ELSE get_outbound_links_only(tree, base_url).value
        IN /\ result.err = "none"
           /\ IsSubsequence(internal, DocLinks)
           /\ IsSubsequence(outbound, DocLinks)
           /\ Members(internal) \cap Members(outbound) = {}
           /\ Web(base_url) =>
                \A link \in Members(DocLinks) :
                    IF Web(link)
                    THEN (link \in Members(internal)) # (link \in Members(outbound))
                    ELSE link \notin Members(internal) \cup Members(outbound)

C10_Witness ==
    /\ After("get_outbound_links_only")
    /\ base_url = B_e
    /\ result.value # <<>>
    /\ get_internal_links_only(tree, base_url).value # <<>>
    /\ \E link \in Members(DocLinks) : ~Web(link)

====
